---- MODULE Spec2Model ----
(***************************************************************************)
(* Expense splitter: the four split allocators of ExpenseCalculator, the   *)
(* balance aggregation of get_balances, the greedy settlement loop of      *)
(* SettlementOptimizer.calculate_optimal_settlements and the name lookup   *)
(* of ExpenseSplitterApp.add_expense.                                      *)
(*                                                                         *)
(* Money is counted in whole cents (an Int), percentages in units of       *)
(* 1/10000 of a percentage point.  np.round(x, 2) is round-half-to-even on *)
(* the exact quotient; binary floating-point dust below 1e-9 is not        *)
(* modelled.  np.isclose keeps its numpy default tolerances.               *)
(***************************************************************************)
EXTENDS Integers, Sequences, FiniteSets, TLC

VARIABLES
    participants,   \* Group.participants: the ids, in insertion order
    expenses,       \* Group.expenses: the appended Expense records
    last,           \* outcome of the last public call: op, raised, sum, total
    pc,             \* calculate_optimal_settlements: "idle", "loop", "done", "KeyError"
    balances,       \* its working array `balances`
    settlements,    \* its list `settlements`
    returned        \* the list a previous call returned, kept by the caller

vars == <<participants, expenses, last, pc, balances, settlements, returned>>

----------------------------------------------------------------------------
(* Bounds of the model *)

NumP == 3              \* largest group of the ledger specification
MaxExpenses == 2       \* allocator calls that append, ledger specification
MaxTotal == 3          \* largest total (cents), ledger specification
MaxSettlements == 6    \* cap on the settlements list (the loop may not end)
WideP == 5             \* largest group of the wide and single-call specifications
MaxOwed == 5           \* largest sum owed (cents), wide specification
MaxCallTotal == 8      \* largest equal-split total (cents), single-call specification
MaxCalls == 1          \* appended expenses, single-call specification
TripP == 3             \* largest group of the trip specification

----------------------------------------------------------------------------
(* Arithmetic *)

Abs(x) == IF x < 0 THEN 0 - x ELSE x

Min(a, b) == IF a < b THEN a ELSE b

PctUnit == 100 * 100   \* model units per percentage point

RECURSIVE SumSeq(_)
SumSeq(s) == IF s = <<>> THEN 0 ELSE Head(s) + SumSeq(Tail(s))

\* np.round(num/den, 2) with num/den counted in cents: round half to even
Rnd(num, den) ==
    LET q == num \div den
        r == num % den
    IN  IF 2 * r < den THEN q
        ELSE IF 2 * r > den THEN q + 1
        ELSE IF q % 2 = 0 THEN q ELSE q + 1

\* np.isclose(a, b): |a - b| <= atol + rtol * |b| with atol = 1e-8 and
\* rtol = 1e-5; a and b are counted in units of 1/scale.  Multiplied by
\* scale * 1e8 the test is |a - b| * 1e8 <= scale + 1000 * |b|.
IsClose(a, b, scale) ==
    Abs(a - b) <= (scale + 1000 * Abs(b)) \div 100000000

----------------------------------------------------------------------------
(* Records *)

ExpenseSplit(pid, amt) == [participant_id |-> pid, amount |-> amt]

Expense(total, payer, method, splits) ==
    [total_amount |-> total, paid_by |-> payer,
     split_method |-> method, splits |-> splits]

Settlement(from, to, amt) ==
    [from_participant |-> from, to_participant |-> to, amount |-> amt]

Outcome(op, raised, sum, total) ==
    [op |-> op, raised |-> raised, sum |-> sum, total |-> total]

\* the caller holds no list of an earlier call / holds the list ss
NoPlan == [kept |-> FALSE, plan |-> <<>>]

KeptPlan(ss) == [kept |-> TRUE, plan |-> ss]

\* a dict argument is its items in insertion order: <<key, value>> pairs
Values(items) == [i \in DOMAIN items |-> items[i][2]]

SplitSum(e) == SumSeq([i \in DOMAIN e.splits |-> e.splits[i].amount])

----------------------------------------------------------------------------
(* Split allocators: the splits each one computes *)

\* add_expense_equal, lines 40-52
EqualSplitsRemainderLast(total, ids) ==
    LET n == Len(ids)
        amount_per_person == Rnd(total, n)
        remainder == total - n * amount_per_person
    IN  [i \in 1..n |-> ExpenseSplit(ids[i],
            IF i = n THEN amount_per_person + remainder ELSE amount_per_person)]

EqualSplits(total, ids) ==
    LET n == Len(ids)
        amount_per_person == Rnd(total, n)
        full == [i \in 1..n |-> amount_per_person]
        remainder == total - SumSeq(full)
        amounts == IF remainder # 0
                   THEN [full EXCEPT ![1] = @ + Rnd(remainder, 1)]
                   ELSE full
    IN  [i \in 1..n |-> ExpenseSplit(ids[i], amounts[i])]

\* add_expense_percentage, lines 92-99
PercentageSplits(total, items) ==
    [i \in DOMAIN items |->
        ExpenseSplit(items[i][1], Rnd(total * items[i][2], 100 * PctUnit))]

\* add_expense_shares, lines 134-144
SharesSplits(total, items) ==
    LET total_shares == SumSeq(Values(items))
    IN  [i \in DOMAIN items |->
            ExpenseSplit(items[i][1], Rnd(total * items[i][2], total_shares))]

\* add_expense_custom, lines 187-190
CustomSplits(items) ==
    [i \in DOMAIN items |-> ExpenseSplit(items[i][1], items[i][2])]

----------------------------------------------------------------------------
(* Balance aggregation: get_balances *)

KnownIds(ps) == {ps[i] : i \in DOMAIN ps}

ExpenseIds(e) ==
    {e.paid_by} \cup {e.splits[i].participant_id : i \in DOMAIN e.splits}

\* balances[...] on an id that is no key of the dict raises KeyError
RaisesKeyError(ps, exps) ==
    \E k \in DOMAIN exps : ~ (ExpenseIds(exps[k]) \subseteq KnownIds(ps))

\* lines 222-223: each person owes their split
RECURSIVE DebitSplits(_, _, _)
DebitSplits(bal, splits, k) ==
    IF k > Len(splits) THEN bal
    ELSE DebitSplits(
            [bal EXCEPT ![splits[k].participant_id] = @ - splits[k].amount],
            splits, k + 1)

\* lines 217-223: the payer is credited the full amount, then the splits
RECURSIVE AccumulateNoSelfDebit(_, _, _)
AccumulateNoSelfDebit(bal, exps, k) ==
    IF k > Len(exps) THEN bal
    ELSE AccumulateNoSelfDebit(
            DebitSplits([bal EXCEPT ![exps[k].paid_by] = @ + exps[k].total_amount],
                        SelectSeq(exps[k].splits,
                            LAMBDA s : s.participant_id # exps[k].paid_by),
                        1),
            exps, k + 1)

RECURSIVE AccumulateOverwriting(_, _, _)
AccumulateOverwriting(bal, exps, k) ==
    IF k > Len(exps) THEN bal
    ELSE AccumulateOverwriting(
            DebitSplits([bal EXCEPT ![exps[k].paid_by] = exps[k].total_amount],
                        exps[k].splits, 1),
            exps, k + 1)

RECURSIVE Accumulate(_, _, _)
Accumulate(bal, exps, k) ==
    IF k > Len(exps) THEN bal
    ELSE Accumulate(
            DebitSplits([bal EXCEPT ![exps[k].paid_by] = @ + exps[k].total_amount],
                        exps[k].splits, 1),
            exps, k + 1)

\* lines 215-234: one balance per participant, in the group's order
GetBalances(ps, exps) ==
    LET bal == Accumulate([p \in KnownIds(ps) |-> 0], exps, 1)
    IN  [i \in DOMAIN ps |-> Rnd(bal[ps[i]], 1)]

----------------------------------------------------------------------------
(* Allocator calls *)

Callable == pc # "loop"

\* the caller drops the previous plan; the planner's locals are gone
DropPlan == /\ pc' = "idle"
            /\ balances' = <<>>
            /\ settlements' = <<>>
            /\ returned' = NoPlan

AppendExpenseFront(e, out) ==
    /\ expenses' = <<e>> \o expenses
    /\ last' = out
    /\ DropPlan
    /\ UNCHANGED participants

AppendExpense(e, out) ==
    /\ expenses' = Append(expenses, e)
    /\ last' = out
    /\ DropPlan
    /\ UNCHANGED participants

Raise(out) ==
    /\ last' = out
    /\ DropPlan
    /\ UNCHANGED <<participants, expenses>>

\* arg.none: the `participants` argument is None (default: the whole group)
AddEqual(total, paid_by, arg) ==
    LET ids == IF arg.none THEN participants ELSE arg.ids
    IN  /\ Callable
        /\ Len(ids) >= 1
        /\ AppendExpense(Expense(total, paid_by, "equal", EqualSplits(total, ids)),
                         Outcome("equal", FALSE, total, total))

AddPercentageUnchecked(total, paid_by, items) ==
    /\ Callable
    /\ AppendExpense(
            Expense(total, paid_by, "percentage", PercentageSplits(total, items)),
            Outcome("percentage", FALSE, SumSeq(Values(items)), total))

AddPercentage(total, paid_by, items) ==
    LET pct_sum == SumSeq(Values(items))
    IN  /\ Callable
        /\ IF ~ IsClose(pct_sum, 100 * PctUnit, PctUnit)
           THEN Raise(Outcome("percentage", TRUE, pct_sum, total))
           ELSE AppendExpense(
                    Expense(total, paid_by, "percentage", PercentageSplits(total, items)),
                    Outcome("percentage", FALSE, pct_sum, total))

\* an empty dict is split among nobody; otherwise the shares are divided by
\* their sum, which the callers modelled here keep positive
AddShares(total, paid_by, items) ==
    /\ Callable
    /\ items # <<>> => SumSeq(Values(items)) >= 1
    /\ AppendExpense(Expense(total, paid_by, "shares", SharesSplits(total, items)),
                     Outcome("shares", FALSE, total, total))

AddCustom(total, paid_by, items) ==
    LET amounts_sum == SumSeq(Values(items))
    IN  /\ Callable
        /\ IF ~ IsClose(amounts_sum, total, 100)
           THEN Raise(Outcome("custom", TRUE, amounts_sum, total))
           ELSE AppendExpense(Expense(total, paid_by, "custom", CustomSplits(items)),
                              Outcome("custom", FALSE, amounts_sum, total))

----------------------------------------------------------------------------
(* Settlement loop: calculate_optimal_settlements *)

\* np.argmax / np.argmin: the first index holding the extreme value
ArgMax(b) ==
    CHOOSE i \in DOMAIN b :
        /\ \A j \in DOMAIN b : b[j] <= b[i]
        /\ \A j \in DOMAIN b : j < i => b[j] < b[i]

ArgMinLast(b) ==
    CHOOSE i \in DOMAIN b :
        /\ \A j \in DOMAIN b : b[j] >= b[i]
        /\ \A j \in DOMAIN b : j > i => b[j] > b[i]

ArgMin(b) ==
    CHOOSE i \in DOMAIN b :
        /\ \A j \in DOMAIN b : b[j] >= b[i]
        /\ \A j \in DOMAIN b : j < i => b[j] > b[i]

\* lines 53-54
TransferAmountHalved(b) == Rnd(Min(b[ArgMax(b)], Abs(b[ArgMin(b)])), 2)

TransferAmount(b) == Rnd(Min(b[ArgMax(b)], Abs(b[ArgMin(b)])), 1)

\* lines 49-50 and 56-57: the two breaks
LoopBreaks(b) ==
    \/ (b[ArgMax(b)] < 1 /\ Abs(b[ArgMin(b)]) < 1)
    \/ TransferAmount(b) < 1

\* lines 68-69
UpdateBalancesDebtorOnly(b) ==
    [b EXCEPT ![ArgMin(b)] = @ + TransferAmount(b)]

UpdateBalances(b) ==
    LET t == TransferAmount(b)
        credited == [b EXCEPT ![ArgMax(b)] = @ - t]
    IN  [credited EXCEPT ![ArgMin(b)] = @ + t]

\* lines 31-37: the working arrays are built from get_balances
BeginPlanClearingLedger ==
    /\ IF RaisesKeyError(participants, expenses)
       THEN /\ pc' = "KeyError"
            /\ balances' = <<>>
       ELSE /\ pc' = "loop"
            /\ balances' = GetBalances(participants, expenses)
    /\ settlements' = <<>>
    /\ last' = Outcome("plan", RaisesKeyError(participants, expenses), 0, 0)
    /\ expenses' = <<>>
    /\ UNCHANGED participants

BeginPlan ==
    /\ IF RaisesKeyError(participants, expenses)
       THEN /\ pc' = "KeyError"
            /\ balances' = <<>>
       ELSE /\ pc' = "loop"
            /\ balances' = GetBalances(participants, expenses)
    /\ settlements' = <<>>
    /\ last' = Outcome("plan", RaisesKeyError(participants, expenses), 0, 0)
    /\ UNCHANGED <<participants, expenses>>

\* a call of calculate_optimal_settlements
StartPlan ==
    /\ Callable
    /\ Len(participants) >= 1
    /\ BeginPlan
    /\ UNCHANGED returned

\* get_settlements_dataframe and get_settlement_summary call it again on the
\* same group, while the caller still holds the list of the call before
PlanAgain ==
    /\ pc = "done"
    /\ BeginPlan
    /\ returned' = KeptPlan(settlements)

\* lines 59-69
PlanTransfer ==
    /\ pc = "loop"
    /\ ~ LoopBreaks(balances)
    /\ Len(settlements) < MaxSettlements
    /\ settlements' = Append(settlements,
            Settlement(participants[ArgMin(balances)],
                       participants[ArgMax(balances)],
                       TransferAmount(balances)))
    /\ balances' = UpdateBalances(balances)
    /\ UNCHANGED <<participants, expenses, last, pc, returned>>

\* lines 49-50, 56-57, 71
PlanReturn ==
    /\ pc = "loop"
    /\ LoopBreaks(balances)
    /\ pc' = "done"
    /\ UNCHANGED <<participants, expenses, last, balances, settlements, returned>>

\* calculate_min_transactions, lines 131-144
CalculateMinTransactions(b) ==
    LET non_zero == Cardinality({i \in DOMAIN b : Abs(b[i]) > 1})
    IN  IF non_zero - 1 > 0 THEN non_zero - 1 ELSE 0

----------------------------------------------------------------------------
(* Inputs *)

Group(n) == [i \in 1..n |-> i]

Known == KnownIds(participants)

\* an id that is the id of no participant of the group
UnknownId == Len(participants) + 1

AllIds == Known \cup {UnknownId}

Reverse(s) == [i \in DOMAIN s |-> s[Len(s) + 1 - i]]

NoneArg == [none |-> TRUE, ids |-> <<>>]

ListArg(ids) == [none |-> FALSE, ids |-> ids]

\* a dict whose keys are the first participants, in the group's order
Dict(v) == [i \in DOMAIN v |-> <<participants[i], v[i]>>]

Fits(v) == Len(v) <= Len(participants)

Start(ps) ==
    /\ participants = ps
    /\ expenses = <<>>
    /\ last = Outcome("none", FALSE, 0, 0)
    /\ pc = "idle"
    /\ balances = <<>>
    /\ settlements = <<>>
    /\ returned = NoPlan

----------------------------------------------------------------------------
(* Ledger specification: small groups, all four allocators, the planner *)

Totals == 1..MaxTotal

EqualArgs ==
    {NoneArg, ListArg(Reverse(participants))}
        \cup {ListArg(<<p>>) : p \in Known}

PctVectors ==
    {<<50 * PctUnit, 50 * PctUnit>>,
     <<50 * PctUnit, 30 * PctUnit, 20 * PctUnit>>,
     <<50 * PctUnit, 30 * PctUnit>>}

ShareVectors == {<<1, 1>>, <<1, 1, 1>>, <<2, 1>>}

CustomVectors(total) ==
    {<<total>>, <<total, 1>>} \cup {<<a, total - a>> : a \in 0..total}

HasRoom == Len(expenses) < MaxExpenses

CallEqual ==
    /\ HasRoom
    /\ \E total \in Totals, paid_by \in AllIds, arg \in EqualArgs :
          AddEqual(total, paid_by, arg)

CallPercentage ==
    /\ HasRoom
    /\ \E total \in Totals, paid_by \in Known, v \in PctVectors :
          Fits(v) /\ AddPercentage(total, paid_by, Dict(v))

CallShares ==
    /\ HasRoom
    /\ \E total \in Totals, paid_by \in AllIds, v \in ShareVectors :
          Fits(v) /\ AddShares(total, paid_by, Dict(v))

CallCustom ==
    /\ HasRoom
    /\ \E total \in Totals, paid_by \in Known :
          \E v \in CustomVectors(total) : Fits(v) /\ AddCustom(total, paid_by, Dict(v))

Init == \E n \in 1..NumP : Start(Group(n))

Next ==
    \/ CallEqual
    \/ CallPercentage
    \/ CallShares
    \/ CallCustom
    \/ StartPlan
    \/ PlanTransfer
    \/ PlanReturn

Spec == Init /\ [][Next]_vars

---------------------------------------------------------------------------------------------------------------------------------------------------
(* Wide specification: groups of up to WideP; the participants take turns, *)
(* each paying one expense in the group's order: either a sum owed by the  *)
(* next participant alone (these rounds build the zero-sum balance         *)
(* vectors) or a share split over the whole group; and the planner         *)

Owed == 1..MaxOwed

WideShareTotals == {2, 3}

Ones == [i \in DOMAIN participants |-> 1]

HasWideRoom == Len(expenses) < Len(participants)

TurnPayer == participants[Len(expenses) + 1]

TurnDebtor == participants[((Len(expenses) + 1) % Len(participants)) + 1]

CallOwed ==
    /\ HasWideRoom
    /\ \E amt \in Owed : AddCustom(amt, TurnPayer, <<<<TurnDebtor, amt>>>>)

CallSharesAll ==
    /\ HasWideRoom
    /\ \E total \in WideShareTotals : AddShares(total, TurnPayer, Dict(Ones))

InitWide == \E n \in 1..WideP : Start(Group(n))

NextWide ==
    \/ CallOwed
    \/ CallSharesAll
    \/ StartPlan
    \/ PlanTransfer
    \/ PlanReturn

SpecWide == InitWide /\ [][NextWide]_vars

----------------------------------------------------------------------------
(* Single-call specification: one allocator call on a fresh group, with    *)
(* inputs that probe the rounding and the validation tolerances            *)

HasCallRoom == Len(expenses) < MaxCalls

CallTotals == 1..MaxCallTotal

\* the payer plays no part in the splits: the first participant pays
Payer == participants[1]

\* sums 80, 99.99, 100.01, 100, 100.0005, 100.001, 100.0011 and 100
TolPctVectors ==
    {<<50 * PctUnit, 30 * PctUnit>>,
     <<50 * PctUnit, 50 * PctUnit - 100>>,
     <<50 * PctUnit, 50 * PctUnit + 100>>,
     <<50 * PctUnit, 50 * PctUnit>>,
     <<50 * PctUnit, 50 * PctUnit + 5>>,
     <<50 * PctUnit, 50 * PctUnit + 10>>,
     <<50 * PctUnit, 50 * PctUnit + 11>>,
     <<333300, 333300, 333400>>}

TolPctTotals == {1, 100}

\* 90.00, 999.99, 1000.00 and 10000.00
TolCustomTotals == {9000, 99999, 100000, 1000000}

TolCustomOffsets == {0 - 11, 0 - 10, 0 - 1, 0, 1, 2, 10, 11}

TolCustomVectors(total) ==
    {<<5000, 3000, 2000>>}
        \cup {<<total - 100, 100 + d>> : d \in TolCustomOffsets}

CallShareVectors == {<<1, 1>>, <<2, 1, 1>>, Ones}

CallEqualOnce ==
    /\ HasCallRoom
    /\ \E total \in CallTotals, arg \in EqualArgs :
          AddEqual(total, Payer, arg)

CallPercentageOnce ==
    /\ HasCallRoom
    /\ \E total \in TolPctTotals, v \in TolPctVectors :
          Fits(v) /\ AddPercentage(total, Payer, Dict(v))

CallSharesOnce ==
    /\ HasCallRoom
    /\ \E total \in CallTotals, v \in CallShareVectors :
          Fits(v) /\ AddShares(total, Payer, Dict(v))

CallCustomOnce ==
    /\ HasCallRoom
    /\ \E total \in TolCustomTotals :
          \E v \in TolCustomVectors(total) :
              Fits(v) /\ AddCustom(total, Payer, Dict(v))

InitCall == \E n \in 1..WideP : Start(Group(n))

NextCall ==
    \/ CallEqualOnce
    \/ CallPercentageOnce
    \/ CallSharesOnce
    \/ CallCustomOnce

SpecCall == InitCall /\ [][NextCall]_vars

----------------------------------------------------------------------------
(* Trip specification: groups of up to TripP (the tests' Ivan, Maria and   *)
(* Georgi); the participants take turns paying one expense each, by any of *)
(* the four allocators, with the tests' round totals and with one cent;    *)
(* the planner, and the planner called again on the unchanged group        *)

\* 0.01 and 90.00
TripTotals == {1, 9000}

\* 10.00: total * percentage stays below 2^31
TripPctTotals == {1000}

\* 50/30/20 and 50/50
TripPctVectors ==
    {<<50 * PctUnit, 30 * PctUnit, 20 * PctUnit>>,
     <<50 * PctUnit, 50 * PctUnit>>}

TripShareVectors == {Ones, <<2, 1>>}

TripCustomVectors(total) == {<<0, total>>}

TripEqual ==
    /\ HasWideRoom
    /\ \E total \in TripTotals, arg \in {NoneArg, ListArg(Reverse(participants))} :
          AddEqual(total, TurnPayer, arg)

TripPercentage ==
    /\ HasWideRoom
    /\ \E total \in TripPctTotals, v \in TripPctVectors :
          Fits(v) /\ AddPercentage(total, TurnPayer, Dict(v))

TripShares ==
    /\ HasWideRoom
    /\ \E total \in TripTotals, v \in TripShareVectors :
          Fits(v) /\ AddShares(total, TurnPayer, Dict(v))

TripCustom ==
    /\ HasWideRoom
    /\ \E total \in TripTotals :
          \E v \in TripCustomVectors(total) :
              Fits(v) /\ AddCustom(total, TurnPayer, Dict(v))

InitTrip == \E n \in 1..TripP : Start(Group(n))

NextTrip ==
    \/ TripEqual
    \/ TripPercentage
    \/ TripShares
    \/ TripCustom
    \/ StartPlan
    \/ PlanTransfer
    \/ PlanReturn
    \/ PlanAgain

SpecTrip == InitTrip /\ [][NextTrip]_vars

----------------------------------------------------------------------------
(* CLI layer: ExpenseSplitterApp.add_expense, which names participants    *)
(* by name and converts the names to ids before it calls the calculator.  *)
(* A participant's name is written as their id; UnknownId is a name no     *)
(* participant has                                                         *)

\* Group.get_participant_by_name returns a participant, not None
NamesParticipant(name) == name \in Known

\* "Convert names to IDs": the entries whose name is not found are skipped
ByKnownId(split_data) ==
    SelectSeq(split_data, LAMBDA item : NamesParticipant(item[1]))

AppAddExpense(amount, paid_by_name, split_method, split_data) ==
    LET refused == Outcome(split_method, TRUE, 0, amount)
    IN  /\ Callable
        /\ IF ~ NamesParticipant(paid_by_name) THEN Raise(refused)
           ELSE IF split_method = "equal"
                THEN AddEqual(amount, paid_by_name, NoneArg)
           ELSE IF split_method \notin {"percentage", "shares", "custom"}
                THEN Raise(refused)
           ELSE IF split_data = <<>> THEN Raise(refused)
           ELSE IF split_method = "percentage"
                THEN AddPercentage(amount, paid_by_name, ByKnownId(split_data))
           ELSE IF split_method = "shares"
                THEN AddShares(amount, paid_by_name, ByKnownId(split_data))
           ELSE AddCustom(amount, paid_by_name, ByKnownId(split_data))

AppMethods == {"equal", "percentage", "shares", "custom", "weekly"}

\* 0.01 and 10.00
AppAmounts == {1, 1000}

\* the names of a split_data dict: known names, with and without a stranger
AppNameLists ==
    {names \in {<<1>>, <<1, 2>>, <<1, UnknownId>>, <<UnknownId, 1>>,
                <<1, 2, UnknownId>>, <<UnknownId>>} :
        \A i \in DOMAIN names : names[i] \in AllIds}

AppValues(split_method, amount) ==
    IF split_method = "percentage"
    THEN {<<100 * PctUnit>>, <<50 * PctUnit, 50 * PctUnit>>,
          <<100 * PctUnit, 0>>, <<50 * PctUnit, 30 * PctUnit, 20 * PctUnit>>}
    ELSE IF split_method = "shares"
    THEN {<<1>>, <<1, 1>>, <<1, 1, 1>>}
    ELSE {<<amount>>, <<amount, 0>>, <<amount - 1, 1>>, <<amount - 1, 1, 0>>}

\* the split_data dicts: names paired with values, and the empty dict
AppSplitData(split_method, amount) ==
    {<<>>} \cup
    {[i \in DOMAIN names |-> <<names[i], values[i]>>] :
        <<names, values>> \in
            {nv \in AppNameLists \X AppValues(split_method, amount) :
                Len(nv[1]) = Len(nv[2])}}

AppCall ==
    /\ HasRoom
    /\ \E split_method \in AppMethods, amount \in AppAmounts, paid_by_name \in AllIds :
          \E split_data \in AppSplitData(split_method, amount) :
              AppAddExpense(amount, paid_by_name, split_method, split_data)

InitApp == \E n \in 1..NumP : Start(Group(n))

NextApp == AppCall

SpecApp == InitApp /\ [][NextApp]_vars

----------------------------------------------------------------------------
(* Helpers of the properties *)

Max(a, b) == IF a > b THEN a ELSE b

AllIdsKnown == ~ RaisesKeyError(participants, expenses)

\* the balance vector get_balances returns in the current state
CurrentBalances == GetBalances(participants, expenses)

IndexOf(pid) == CHOOSE i \in DOMAIN participants : participants[i] = pid

NonZeroCount(b) == Cardinality({i \in DOMAIN b : b[i] # 0})

\* debtor += amount, creditor -= amount, for every settlement of ss in turn
RECURSIVE ApplySettlements(_, _)
ApplySettlements(b, ss) ==
    IF ss = <<>> THEN b
    ELSE LET s == Head(ss)
             paid == [b EXCEPT ![IndexOf(s.from_participant)] = @ + s.amount]
         IN  ApplySettlements(
                [paid EXCEPT ![IndexOf(s.to_participant)] = @ - s.amount],
                Tail(ss))

PaidTo(pid, ss) ==
    SumSeq([i \in DOMAIN ss |->
        IF ss[i].to_participant = pid THEN ss[i].amount ELSE 0])

RECURSIVE SumOver(_, _)
SumOver(b, S) ==
    IF S = {} THEN 0
    ELSE LET x == CHOOSE y \in S : TRUE IN b[x] + SumOver(b, S \ {x})

\* the largest number of blocks in a partition of S into non-empty blocks
\* that each sum to zero (S itself sums to zero)
RECURSIVE MaxZeroBlocks(_, _)
MaxZeroBlocks(b, S) ==
    IF S = {} THEN 0
    ELSE LET m == CHOOSE x \in S : \A y \in S : x <= y
             blocks == {T \in SUBSET S : m \in T /\ SumOver(b, T) = 0}
             counts == {1 + MaxZeroBlocks(b, S \ T) : T \in blocks}
         IN  CHOOSE c \in counts : \A d \in counts : d <= c

\* the fewest transfers that settle a zero-sum vector: a set of transfers is a
\* graph whose connected components each sum to zero, a component of k
\* participants needs k - 1 transfers, and k - 1 always suffice
MinTransfers(b) ==
    LET S == {i \in DOMAIN b : b[i] # 0}
    IN  Cardinality(S) - MaxZeroBlocks(b, S)

\* the totals of the expenses pid paid
TotalPaid(pid, exps) ==
    SumSeq([k \in DOMAIN exps |->
        IF exps[k].paid_by = pid THEN exps[k].total_amount ELSE 0])

\* the split amounts assigned to pid, over all expenses
TotalAssigned(pid, exps) ==
    SumSeq([k \in DOMAIN exps |->
        SumSeq([i \in DOMAIN exps[k].splits |->
            IF exps[k].splits[i].participant_id = pid
            THEN exps[k].splits[i].amount ELSE 0])])

\* the sequence s taken in the order f
Permuted(s, f) == [k \in DOMAIN s |-> s[f[k]]]

\* the largest and the smallest entry of a non-empty vector
Largest(b) == CHOOSE v \in {b[i] : i \in DOMAIN b} : \A j \in DOMAIN b : b[j] <= v

Smallest(b) == CHOOSE v \in {b[i] : i \in DOMAIN b} : \A j \in DOMAIN b : b[j] >= v

\* the participant earliest in the group's order whose entry of b is v
EarliestWith(b, v) ==
    participants[CHOOSE i \in DOMAIN b :
        b[i] = v /\ \A j \in 1..(i - 1) : b[j] # v]

\* A, B and C in that order, and one expense: A paid 90.00, split equally
\* among the whole group
DinnerPaidByA ==
    /\ participants = <<1, 2, 3>>
    /\ Len(expenses) = 1
    /\ expenses[1].total_amount = 9000
    /\ expenses[1].paid_by = 1
    /\ expenses[1].split_method = "equal"
    /\ [i \in DOMAIN expenses[1].splits |-> expenses[1].splits[i].participant_id]
          = participants

\* split_data names somebody who is not in the group
NamesStranger(split_data) ==
    \E i \in DOMAIN split_data : ~ NamesParticipant(split_data[i][1])

----------------------------------------------------------------------------
(* C1 Balance conservation: whenever every id of the expenses belongs to  *)
(* the group, the balances of get_balances sum to zero within one cent.   *)
C1_BalanceConservation ==
    AllIdsKnown => Abs(SumSeq(CurrentBalances)) <= 1

(* C2 Settlement correctness: when calculate_optimal_settlements has      *)
(* returned, applying its settlements to the balances of get_balances     *)
(* leaves every balance within one cent of zero, and every creditor was   *)
(* paid exactly their positive balance.                                   *)
C2_SettlementCorrectness ==
    pc = "done" =>
        LET after == ApplySettlements(CurrentBalances, settlements)
        IN  /\ \A i \in DOMAIN after : Abs(after[i]) <= 1
            /\ \A i \in DOMAIN participants :
                  CurrentBalances[i] > 0 =>
                      PaidTo(participants[i], settlements) = CurrentBalances[i]

(* C3 Minimal cardinality: for a balance vector that sums to zero the     *)
(* returned plan has the fewest transfers that settle it.                 *)
C3_MinimalCardinality ==
    (pc = "done" /\ SumSeq(CurrentBalances) = 0) =>
        Len(settlements) <= MinTransfers(CurrentBalances)

(* C4 Equal-split sum invariant: every EQUAL expense has splits that sum  *)
(* exactly to its total; every participant but the first gets             *)
(* round(total/n) and the first gets that share plus the whole signed     *)
(* remainder total - n*share.                                             *)
C4_EqualSplitSum ==
    \A k \in DOMAIN expenses :
        LET e == expenses[k]
            n == Len(e.splits)
            share == Rnd(e.total_amount, n)
        IN  e.split_method = "equal" =>
                /\ n >= 1
                /\ SplitSum(e) = e.total_amount
                /\ \A i \in 2..n : e.splits[i].amount = share
                /\ e.splits[1].amount = share + (e.total_amount - n * share)

\* an EQUAL expense over at least two participants whose total does not divide
C4_Witness ==
    \E k \in DOMAIN expenses :
        /\ expenses[k].split_method = "equal"
        /\ Len(expenses[k].splits) >= 2
        /\ expenses[k].total_amount
              # Len(expenses[k].splits)
                  * Rnd(expenses[k].total_amount, Len(expenses[k].splits))

(* C5 Expense sum invariant: the splits of every stored Expense, whatever *)
(* its split method, sum to its total within one cent.                    *)
C5_ExpenseSumInvariant ==
    \A k \in DOMAIN expenses :
        Abs(SplitSum(expenses[k]) - expenses[k].total_amount) <= 1

(* C6 Bounded termination on conserved input: while the working balances *)
(* sum to zero, every iteration of the settlement loop either emits one   *)
(* settlement and strictly lowers the number of non-zero balances,        *)
(* keeping the list at n - 1 entries or fewer, or leaves the loop with    *)
(* every balance at zero.                                                 *)
C6_BoundedTermination ==
    [][ (pc = "loop" /\ SumSeq(balances) = 0) =>
            \/ /\ pc' = "loop"
               /\ NonZeroCount(balances') < NonZeroCount(balances)
               /\ Len(settlements') = Len(settlements) + 1
               /\ Len(settlements') <= Len(participants) - 1
            \/ /\ pc' = "done"
               /\ NonZeroCount(balances) = 0
               /\ settlements' = settlements ]_vars

\* a conserved vector that takes the full n - 1 settlements
C6_Witness ==
    /\ pc = "done"
    /\ AllIdsKnown
    /\ SumSeq(CurrentBalances) = 0
    /\ Len(participants) >= 3
    /\ Len(settlements) = Len(participants) - 1

(* C7 Settlement count bound: the list calculate_optimal_settlements      *)
(* returns has at most max(0, k - 1) entries, k the number of             *)
(* participants with a non-zero balance in get_balances.                  *)
C7_CountBound ==
    pc = "done" =>
        Len(settlements) <= Max(0, NonZeroCount(CurrentBalances) - 1)

\* a returned plan that meets the bound with three unsettled participants
C7_Witness ==
    /\ pc = "done"
    /\ NonZeroCount(CurrentBalances) = 3
    /\ Len(settlements) = 2

C9_CustomMustSumToTotal ==
    [][ (last'.op = "custom" /\ last'.sum # last'.total) =>
            /\ last'.raised
            /\ expenses' = expenses ]_vars

(* C10 Unknown ids are rejected at allocation: every id referenced by     *)
(* group.expenses is the id of a participant, so get_balances never       *)
(* fails on a missing id.                                                 *)
C10_UnknownIdsRejected ==
    /\ AllIdsKnown
    /\ pc # "KeyError"

(* C11 Balance formula and sign convention: whenever get_balances returns, *)
(* each participant's balance is the sum of the totals of the expenses    *)
(* they paid minus the sum of the split amounts assigned to them over all *)
(* expenses; a payer in the splits is debited their own split and a       *)
(* participant in no expense has balance zero.                            *)
C11_BalanceFormula ==
    AllIdsKnown =>
        \A i \in DOMAIN participants :
            /\ CurrentBalances[i]
                  = TotalPaid(participants[i], expenses)
                      - TotalAssigned(participants[i], expenses)
            /\ (\A k \in DOMAIN expenses :
                    participants[i] \notin ExpenseIds(expenses[k]))
                  => CurrentBalances[i] = 0

\* two expenses, one of them debiting its payer a non-zero split, and a
\* participant who is in neither
C11_Witness ==
    /\ Len(expenses) = 2
    /\ \E k \in DOMAIN expenses :
          \E i \in DOMAIN expenses[k].splits :
              /\ expenses[k].splits[i].participant_id = expenses[k].paid_by
              /\ expenses[k].splits[i].amount > 0
    /\ \E i \in DOMAIN participants :
          \A k \in DOMAIN expenses : participants[i] \notin ExpenseIds(expenses[k])

C13_IdempotentReadOnly ==
    [][ /\ pc' # "idle" =>
              /\ participants' = participants
              /\ expenses' = expenses
              /\ AllIdsKnown =>
                    GetBalances(participants', expenses') = CurrentBalances
        /\ (pc = "loop" /\ pc' = "done" /\ returned.kept) =>
              settlements' = returned.plan ]_vars

\* a second call has returned, the first having returned two settlements
C13_Witness ==
    /\ pc = "done"
    /\ returned.kept
    /\ Len(returned.plan) = 2
    /\ Len(expenses) >= 2

(* C14 Allocator frame condition: every successful allocator call appends *)
(* exactly one Expense at the end of group.expenses; no step changes the  *)
(* participants list or a stored Expense, so the expense sequence only    *)
(* grows and each earlier state of it is a prefix of every later one.     *)
C14_AllocatorFrame ==
    [][ /\ participants' = participants
        /\ Len(expenses') >= Len(expenses)
        /\ SubSeq(expenses', 1, Len(expenses)) = expenses
        /\ (pc' = "idle" /\ ~ last'.raised) =>
              /\ Len(expenses') = Len(expenses) + 1
              /\ expenses'[Len(expenses')].split_method = last'.op ]_vars

\* an allocator call has succeeded on a ledger that held two expenses
C14_Witness ==
    /\ pc = "idle"
    /\ ~ last.raised
    /\ Len(expenses) = 3
    /\ last.op = expenses[3].split_method

(* C15 Deterministic tie-break and emission order: every iteration that   *)
(* emits a settlement appends it to the list, from the earliest           *)
(* participant holding the minimum working balance to the earliest one    *)
(* holding the maximum; and when A has paid 90.00 split equally among A,  *)
(* B and C the balances are +60.00, -30.00, -30.00 and the returned plan  *)
(* is exactly [B pays A 30.00, C pays A 30.00], all balances zero.        *)
C15_TieBreakAndOrder ==
    [][ /\ (pc = "loop" /\ pc' = "loop") =>
              /\ Len(settlements') = Len(settlements) + 1
              /\ SubSeq(settlements', 1, Len(settlements)) = settlements
              /\ settlements'[Len(settlements')].from_participant
                    = EarliestWith(balances, Smallest(balances))
              /\ settlements'[Len(settlements')].to_participant
                    = EarliestWith(balances, Largest(balances))
        /\ DinnerPaidByA =>
              /\ CurrentBalances = <<6000, 0 - 3000, 0 - 3000>>
              /\ pc' = "done" =>
                    /\ settlements' = <<Settlement(2, 1, 3000),
                                        Settlement(3, 1, 3000)>>
                    /\ balances' = <<0, 0, 0>> ]_vars

\* the plan of the dinner A paid has been returned
C15_Witness ==
    /\ DinnerPaidByA
    /\ pc = "done"
    /\ Len(settlements) = 2

(* C16 Unconditional termination: calculate_optimal_settlements leaves    *)
(* its while-loop on every group state successful allocator calls can     *)
(* build.  The working balances are the only state an iteration hands to  *)
(* the next one, so the loop can end only if no iteration leaves them as  *)
(* it found them: every iteration that stays in the loop changes the      *)
(* working balances.                                                      *)
C16_EveryIterationProgresses ==
    [][ (pc = "loop" /\ pc' = "loop") => balances' # balances ]_vars

(* C17 Well-formed settlements: every settlement the loop appends has an  *)
(* amount of at least 0.01, a from_participant different from its         *)
(* to_participant, a from_participant whose working balance was negative  *)
(* and a to_participant whose working balance was positive when it was    *)
(* emitted.                                                               *)
C17_WellFormedSettlements ==
    [][ Len(settlements') > Len(settlements) =>
            LET s == settlements'[Len(settlements')]
            IN  /\ s.amount >= 1
                /\ s.from_participant # s.to_participant
                /\ balances[IndexOf(s.from_participant)] < 0
                /\ balances[IndexOf(s.to_participant)] > 0 ]_vars

(* C18 Equal-split amounts are fair and non-negative: every split amount  *)
(* of an EQUAL expense is at least zero and any two of its split amounts  *)
(* differ by at most 0.01.                                                *)
C18_EqualSplitFair ==
    \A k \in DOMAIN expenses :
        expenses[k].split_method = "equal" =>
            \A i, j \in DOMAIN expenses[k].splits :
                /\ expenses[k].splits[i].amount >= 0
                /\ Abs(expenses[k].splits[i].amount
                          - expenses[k].splits[j].amount) <= 1

(* C19 The CLI layer never silently produces an incomplete split set: a   *)
(* call of ExpenseSplitterApp.add_expense with split method percentage,   *)
(* shares or custom whose split_data names a participant that is not in   *)
(* the group reports an error and appends no expense.                     *)
C19_StrangerAppendsNothing ==
    [][ \A split_method \in {"percentage", "shares", "custom"},
           amount \in AppAmounts, paid_by_name \in AllIds :
            \A split_data \in AppSplitData(split_method, amount) :
                (/\ NamesStranger(split_data)
                 /\ AppAddExpense(amount, paid_by_name, split_method, split_data))
                    => /\ expenses' = expenses
                       /\ last'.raised ]_vars

(* C20 Consistent zero threshold: for every balance vector that sums to   *)
(* zero, balances of exactly one cent included, the list                  *)
(* calculate_optimal_settlements returns has at most                      *)
(* calculate_min_transactions(balances) entries.                          *)
C20_ConsistentThreshold ==
    (pc = "done" /\ SumSeq(CurrentBalances) = 0) =>
        Len(settlements) <= CalculateMinTransactions(CurrentBalances)

====
